---- MODULE Spec2Model ----
(***************************************************************************)
(* Model of the road-telemetry pipeline.  The store service                *)
(* (src/store/main.py): the WebSocket subscription registry, the fan-out   *)
(* function send_data_to_subscribers and the REST handlers of the table.   *)
(* The edge classifier (src/edge/app/usecases/data_processing.py) and the  *)
(* agent's file data source (src/agent/src/file_datasource.py).            *)
(*                                                                         *)
(* The service runs on one cooperative event loop, so a coroutine handler  *)
(* is atomic between two of its await points: an action is the code that   *)
(* runs from one await point to the next.  The plain-function handlers     *)
(* (get, put, delete) run on pool threads: an action is one statement on   *)
(* the database.                                                           *)
(*                                                                         *)
(* The specifications share the variables:                                 *)
(*   Spec        the deployed server: WebSocket endpoint handlers and the  *)
(*               HTTP create handler (which never calls the fan-out);      *)
(*   SpecFanout  the endpoint handlers together with a caller that invokes *)
(*               send_data_to_subscribers as a task on the same loop;      *)
(*   SpecStore   the REST endpoints of the table: create, get, list, put   *)
(*               and delete, the last two on threads of the pool;          *)
(*   SpecEdge    the edge classifier applied to accelerometer readings;    *)
(*   SpecAgent   the agent's FileDatasource.read applied to sensor files;  *)
(*   SpecReg     the registry operations (the add of lines 107-109, the    *)
(*               remove of line 114, the fan-out) applied to arbitrary     *)
(*               arguments.                                                *)
(***************************************************************************)
EXTENDS Integers, Sequences, FiniteSets, TLC

\* ------------------------------------------------------------------ bounds
NumSockets == 2      \* WebSocket connections of SpecFanout, listener handles of SpecReg
MaxListeners == 1    \* WebSocket connections of Spec
MaxRecords == 3      \* records submitted to POST /processed_agent_data/, over all requests
MaxPublishes == 1    \* calls of send_data_to_subscribers
MaxRegOps == 3       \* registry operations of SpecReg
MaxWorkers == 2      \* threads of the pool that run the PUT and DELETE handlers
MaxAccel == 102      \* accelerometer readings of SpecEdge: -MaxAccel..MaxAccel
MaxCsvRows == 2      \* data rows of each sensor file of SpecAgent
MaxStoreOps == 3     \* SpecStore: records submitted plus GET, PUT and DELETE requests

Sockets == 1..NumSockets
Users == {7, 42}

VARIABLES
    pc,             \* per WebSocket: position of its websocket_endpoint handler
    conn,           \* per WebSocket: state of the transport connection
    wsUser,         \* per WebSocket: the user_id path parameter of its handler
    subscriptions,  \* the module-level dict user_id -> set of WebSocket
    received,       \* per WebSocket: the frames the client was sent, in order
    pub,            \* the send_data_to_subscribers task in flight (or the last one)
    nPublishes,     \* calls of send_data_to_subscribers so far
    table,          \* the rows of processed_agent_data, in insertion order
    nextId,         \* the next value of the primary-key sequence
    lastCreate,     \* the last POST /processed_agent_data/ request and its outcome
    nSubmitted,     \* records submitted by POST requests so far
    lastOp,         \* the last registry operation applied by SpecReg
    nRegOps,        \* registry operations applied by SpecReg so far
    workers,        \* per pool thread: the PUT or DELETE request it is running
    lastReq,        \* the last GET, PUT or DELETE request answered and its outcome
    written,        \* per primary key: the request body its columns were last written from
    deleted,        \* the primary keys a DELETE request has removed
    nRequests,      \* GET, PUT and DELETE requests so far
    config,         \* the agent's configuration module
    processed,      \* the last call of the edge's process_agent_data and its result
    aggregated      \* the last call of the agent's FileDatasource.read and its result

vars == <<pc, conn, wsUser, subscriptions, received, pub, nPublishes,
          table, nextId, lastCreate, nSubmitted, lastOp, nRegOps,
          workers, lastReq, written, deleted, nRequests,
          config, processed, aggregated>>

storeVars == <<table, nextId, lastCreate, nSubmitted>>
regVars == <<lastOp, nRegOps>>
crudVars == <<workers, lastReq, deleted, nRequests>>
pipeVars == <<config, processed, aggregated>>
wsVars == <<pc, conn, wsUser>>

\* ------------------------------------------------------------- helpers
Range(s) == {s[i] : i \in DOMAIN s}

Min(S) == CHOOSE x \in S : \A y \in S : x <= y

RECURSIVE SelectIdx(_, _)
\* the increasing sequence of the members of the finite set of naturals S above lo
SelectIdx(S, lo) ==
    IF {x \in S : x > lo} = {} THEN << >>
    ELSE LET m == Min({x \in S : x > lo}) IN <<m>> \o SelectIdx(S, m)

\* ------------------------------------------------------------- request data
\* Timestamps: a wall-clock reading in hours and a UTC offset ("naive" when
\* the datetime carries none).
Times == {[wall |-> 1, tz |-> "naive"], [wall |-> 5, tz |-> "+02:00"]}

\* The hours of a UTC offset.
TzHours(tz) == IF tz = "+02:00" THEN 2 ELSE 0

\* AgentData / ProcessedAgentData request bodies (pydantic models, nested).
Item(rs, u, yv, t) ==
    [road_state |-> rs,
     agent_data |-> [user_id |-> u,
                     accelerometer |-> [x |-> 1, y |-> yv, z |-> 3],
                     gps |-> [latitude |-> 50, longitude |-> 30],
                     timestamp |-> t]]

Items == {Item("flat", 7, 0, [wall |-> 1, tz |-> "naive"]),
          Item("unknown", 42, 150, [wall |-> 5, tz |-> "+02:00"])}

RECURSIVE SeqsUpTo(_, _)
SeqsUpTo(S, n) ==
    IF n = 0 THEN {<< >>}
    ELSE LET shorter == SeqsUpTo(S, n - 1)
         IN shorter \cup {Append(s, x) : s \in {q \in shorter : Len(q) = n - 1}, x \in S}

\* The request bodies of at most n records.
Batches(n) == SeqsUpTo(Items, n)

\* datetime.isoformat(): the textual form keeps the wall clock and the offset.
isoformat(t) == [iso_wall |-> t.wall, iso_tz |-> t.tz]

\* The dict built for one item of the batch.
insert_values(item) ==
    [road_state |-> item.road_state,
     user_id |-> item.agent_data.user_id,
     x |-> item.agent_data.accelerometer.x,
     y |-> item.agent_data.accelerometer.y,
     z |-> item.agent_data.accelerometer.z,
     latitude |-> item.agent_data.gps.latitude,
     longitude |-> item.agent_data.gps.longitude,
     timestamp |-> isoformat(item.agent_data.timestamp)]

\* Column("timestamp", DateTime) is a timestamp without time zone.  A text
\* parameter is read as a literal of the column's type: the wall clock is
\* kept and a UTC offset in the text is ignored.
timestamp_from_text(iso) == [wall |-> iso.iso_wall, tz |-> "naive"]

\* A datetime parameter: a naive one is stored as it is, an aware one is sent
\* as a timestamp with time zone and stored as the wall clock of its instant
\* in the session's time zone (UTC).
timestamp_from_datetime(t) ==
    IF t.tz = "naive" THEN t ELSE [wall |-> t.wall - TzHours(t.tz), tz |-> "naive"]

\* A row of the processed_agent_data table: the inserted columns and the
\* primary key the database assigned.
Row(id, v) ==
    [id |-> id, road_state |-> v.road_state, user_id |-> v.user_id,
     x |-> v.x, y |-> v.y, z |-> v.z,
     latitude |-> v.latitude, longitude |-> v.longitude,
     timestamp |-> timestamp_from_text(v.timestamp)]

\* The columns of a row without its primary key.
Columns(r) ==
    [road_state |-> r.road_state, user_id |-> r.user_id,
     x |-> r.x, y |-> r.y, z |-> r.z,
     latitude |-> r.latitude, longitude |-> r.longitude,
     timestamp |-> r.timestamp]

\* ------------------------------------------------------------- registry
NoSubscriptions == [u \in {} |-> {}]

\* The registration without the test of line 107: the user's set is replaced
\* by a fresh one at every connect.
subscribe_fresh_set(subs, u, w) ==
    [k \in DOMAIN subs \cup {u} |-> IF k = u THEN {w} ELSE subs[k]]

\* lines 107-109: create the user's set if absent, then set.add.
subscribe(subs, u, w) ==
    LET s1 == IF u \notin DOMAIN subs
              THEN [k \in DOMAIN subs \cup {u} |-> IF k = u THEN {} ELSE subs[k]]
              ELSE subs
    IN [s1 EXCEPT ![u] = @ \cup {w}]

\* line 114: subscriptions[user_id].remove(websocket).  The dict lookup and
\* set.remove both raise KeyError when the key or the member is missing.
unsubscribe(subs, u, w) ==
    IF u \notin DOMAIN subs THEN [raised |-> "KeyError", subs |-> subs]
    ELSE IF w \notin subs[u] THEN [raised |-> "KeyError", subs |-> subs]
    ELSE [raised |-> "none", subs |-> [subs EXCEPT ![u] = @ \ {w}]]

Members(subs, u) == IF u \in DOMAIN subs THEN subs[u] ELSE {}

\* ------------------------------------------------------------- fan-out
\* line 121: the frame is send_json(json.dumps(data)): a JSON string whose
\* content is the JSON text of data.
json_dumps(d) == [json_text |-> d]
Frame(d) == [json_string |-> json_dumps(d)]

NoPub ==
    [st |-> "none", user |-> 7, data |-> insert_values(Item("flat", 7, 0, [wall |-> 1, tz |-> "naive"])),
     size |-> 0, remaining |-> {}, cur |-> 0, snap |-> {}, sent |-> << >>,
     err |-> "none", raced |-> FALSE, epoch |-> 0]

PubFinished == pub.st \in {"returned", "raised"}

\* The payloads a caller hands to send_data_to_subscribers.
PubData == {insert_values(i) : i \in Items}

\* An iteration that walks the listeners of every user instead of the set of
\* user_id.
SetIterNext_all_users(p, subs) ==
    IF Cardinality(subs[p.user]) # p.size
    THEN {[p EXCEPT !.st = "raised", !.err = "RuntimeError", !.cur = 0]}
    ELSE LET todo == p.remaining \cup
                     ((UNION {subs[u] : u \in DOMAIN subs}) \ Range(p.sent))
         IN IF todo = {}
            THEN {[p EXCEPT !.st = "returned", !.cur = 0]}
            ELSE {[p EXCEPT !.st = "sending", !.cur = w, !.remaining = @ \ {w}] : w \in todo}

\* The set iterator's next(): RuntimeError when the set's size differs from
\* the size the iterator recorded, StopIteration when no entry is left,
\* otherwise some entry not yet passed (the order is the hash order, which the
\* program does not control).  p is the task after its last step.
SetIterNext(p, subs) ==
    IF Cardinality(subs[p.user]) # p.size
    THEN {[p EXCEPT !.st = "raised", !.err = "RuntimeError", !.cur = 0]}
    ELSE IF p.remaining = {}
    THEN {[p EXCEPT !.st = "returned", !.cur = 0]}
    ELSE {[p EXCEPT !.st = "sending", !.cur = w, !.remaining = @ \ {w}] : w \in p.remaining}

\* A set.add of a new member while an iterator is open on that set: the entry
\* lands before or after the iterator's position, and a resize of the table
\* re-places every entry, so the entries still ahead of the iterator are an
\* arbitrary subset of the new set.
IterAfterAdd(p, u, w, subs) ==
    IF p.st = "sending" /\ p.user = u /\ w \notin Members(subs, u) /\ u \in DOMAIN subs
    THEN {[p EXCEPT !.remaining = R, !.raced = TRUE] : R \in SUBSET (subs[u] \cup {w})}
    ELSE {p}

\* A set.remove while an iterator is open: the entry becomes a dummy that the
\* iterator skips; nothing else moves.
IterAfterRemove(p, u, w, subs) ==
    IF p.st = "sending" /\ p.user = u /\ w \in Members(subs, u)
    THEN [p EXCEPT !.remaining = @ \ {w}, !.raced = TRUE]
    ELSE p

\* ------------------------------------------------------------- WebSocket endpoint
\* lines 106-112: accept, register, enter the receive loop.  Every connection
\* is a fresh WebSocket object; the objects are numbered in the order in which
\* they connect.
WsConnect(w, u) ==
    /\ pc[w] = "idle"
    /\ \A v \in 1..(w - 1) : pc[v] # "idle"
    /\ conn[w] = "none"
    /\ pc' = [pc EXCEPT ![w] = "receiving"]
    /\ conn' = [conn EXCEPT ![w] = "open"]
    /\ wsUser' = [wsUser EXCEPT ![w] = u]
    /\ subscriptions' = subscribe(subscriptions, u, w)
    /\ pub' \in IterAfterAdd(pub, u, w, subscriptions)
    /\ UNCHANGED <<received, nPublishes, storeVars, regVars, crudVars, pipeVars, written>>

\* line 106: accept raises (the client is gone before the handshake ends); the
\* handler ends before it registers anything.
WsAcceptError(w) ==
    /\ pc[w] = "idle"
    /\ \A v \in 1..(w - 1) : pc[v] # "idle"
    /\ conn[w] = "none"
    /\ pc' = [pc EXCEPT ![w] = "failed"]
    /\ conn' = [conn EXCEPT ![w] = "closed"]
    /\ UNCHANGED <<wsUser, subscriptions, received, pub, nPublishes, storeVars, regVars, crudVars, pipeVars, written>>

\* lines 111-112: a text frame arrives; the loop goes round.
WsReceiveText(w) ==
    /\ pc[w] = "receiving"
    /\ conn[w] = "open"
    /\ UNCHANGED vars

\* The client stops reading: the frames sent to it are no longer taken, and a
\* send_json to it stays suspended for as long as the client neither resumes
\* nor closes.
ClientStall(w) ==
    /\ conn[w] = "open"
    /\ pc[w] = "receiving"
    /\ conn' = [conn EXCEPT ![w] = "stalled"]
    /\ UNCHANGED <<pc, wsUser, subscriptions, received, pub, nPublishes, storeVars, regVars, crudVars, pipeVars, written>>

\* The client closes the connection; the handler has not run yet.
ClientClose(w) ==
    /\ conn[w] \in {"open", "stalled"}
    /\ pc[w] = "receiving"
    /\ conn' = [conn EXCEPT ![w] = "closed"]
    /\ UNCHANGED <<pc, wsUser, subscriptions, received, pub, nPublishes, storeVars, regVars, crudVars, pipeVars, written>>

\* lines 113-114: receive_text raises WebSocketDisconnect; the handler removes
\* its socket and returns.
WsDisconnect(w) ==
    /\ pc[w] = "receiving"
    /\ conn[w] = "closed"
    /\ LET r == unsubscribe(subscriptions, wsUser[w], w)
       IN /\ subscriptions' = r.subs
          /\ pc' = [pc EXCEPT ![w] = IF r.raised = "none" THEN "done" ELSE "failed"]
    /\ pub' = IterAfterRemove(pub, wsUser[w], w, subscriptions)
    /\ UNCHANGED <<conn, wsUser, received, nPublishes, storeVars, regVars, crudVars, pipeVars, written>>

\* lines 110-113: receive_text raises something other than WebSocketDisconnect
\* (a binary frame has no "text" key; the task is cancelled): no except clause
\* matches, the handler ends with the exception and the server closes the
\* connection.
WsReceiveError(w) ==
    /\ pc[w] = "receiving"
    /\ conn[w] = "open"
    /\ pc' = [pc EXCEPT ![w] = "failed"]
    /\ conn' = [conn EXCEPT ![w] = "closed"]
    /\ UNCHANGED <<wsUser, subscriptions, received, pub, nPublishes, storeVars, regVars, crudVars, pipeVars, written>>

\* lines 118-121, from the call to the first await: the membership test, the
\* creation of the set iterator (it records the set's size) and the first
\* next().  snap, sent, raced and epoch are history: the members when the call
\* began, the sockets whose send completed, whether the set was mutated while
\* the iterator was open, and the registry operations applied before the call.
\* The caller starts a call when its previous call has ended (one fan-out in
\* flight at a time).
PublishCall(u, d) ==
    /\ nPublishes < MaxPublishes
    /\ pub.st # "sending"
    /\ nPublishes' = nPublishes + 1
    /\ LET p0 == [NoPub EXCEPT !.user = u, !.data = d, !.epoch = nRegOps,
                               !.snap = Members(subscriptions, u),
                               !.size = Cardinality(Members(subscriptions, u)),
                               !.remaining = Members(subscriptions, u)]
       IN IF u \in DOMAIN subscriptions
          THEN pub' \in SetIterNext(p0, subscriptions)
          ELSE pub' = [p0 EXCEPT !.st = "returned"]
    /\ UNCHANGED <<wsVars, subscriptions, received, storeVars, regVars, crudVars, pipeVars, written>>

\* line 121 and back to line 120: the awaited send_json completes.  On a
\* closed connection it raises and, with no handler in the loop, the exception
\* leaves send_data_to_subscribers.  Otherwise the client has the frame and
\* the loop asks the iterator for the next socket.  The await has no timeout:
\* while the client is stalled the task stays where it is.
PubSendResume ==
    /\ pub.st = "sending"
    /\ conn[pub.cur] # "stalled"
    /\ IF conn[pub.cur] # "open"
       THEN /\ pub' = [pub EXCEPT !.st = "raised", !.err = "SendError"]
            /\ received' = received
       ELSE /\ received' = [received EXCEPT ![pub.cur] = Append(@, Frame(pub.data))]
            /\ pub' \in SetIterNext([pub EXCEPT !.sent = Append(@, pub.cur)], subscriptions)
    /\ UNCHANGED <<wsVars, subscriptions, nPublishes, storeVars, regVars, crudVars, pipeVars, written>>

\* ------------------------------------------------------------- registry operations
\* lines 107-109 applied to a listener handle by a direct caller.
RegSubscribe(u, w) ==
    /\ nRegOps < MaxRegOps
    /\ nRegOps' = nRegOps + 1
    /\ subscriptions' = subscribe(subscriptions, u, w)
    /\ pub' \in IterAfterAdd(pub, u, w, subscriptions)
    /\ lastOp' = [op |-> "subscribe", user |-> u, ws |-> w,
                  before |-> subscriptions, raised |-> "none"]
    /\ UNCHANGED <<wsVars, received, nPublishes, storeVars, crudVars, pipeVars, written>>

\* line 114 applied to a listener handle by a direct caller.
RegUnsubscribe(u, w) ==
    /\ nRegOps < MaxRegOps
    /\ nRegOps' = nRegOps + 1
    /\ LET r == unsubscribe(subscriptions, u, w)
       IN /\ subscriptions' = r.subs
          /\ lastOp' = [op |-> "unsubscribe", user |-> u, ws |-> w,
                        before |-> subscriptions, raised |-> r.raised]
    /\ pub' = IterAfterRemove(pub, u, w, subscriptions)
    /\ UNCHANGED <<wsVars, received, nPublishes, storeVars, crudVars, pipeVars, written>>

\* ------------------------------------------------------------- batch create
\* The first index of the batch whose insert fails (n+1 when none does): the
\* loop leaves at the first exception.
FirstFail(n, fails) == Min(fails \cup {n + 1})

\* The loop without the rollback of line 150: the failing record stays.
inserted_records_no_rollback(data, fails) ==
    [i \in 1..Min({FirstFail(Len(data), fails), Len(data)}) |-> insert_values(data[i])]

\* The loop with the raise of line 151 replaced by a continue: every record
\* whose insert succeeds is stored.
inserted_records_continue(data, fails) ==
    LET idx == SelectIdx((1..Len(data)) \ fails, 0)
    IN [i \in 1..Len(idx) |-> insert_values(data[idx[i]])]

\* lines 134-148: inserted_records when the loop ends, normally or by the
\* raise of line 151: the items before the first failing insert.
inserted_records(data, fails) ==
    [i \in 1..(FirstFail(Len(data), fails) - 1) |-> insert_values(data[i])]

\* A loop that publishes each item as it reaches it, before the insert is
\* known to have succeeded.
create_published_eager(data, fails) ==
    [i \in 1..Min({FirstFail(Len(data), fails), Len(data)}) |-> i]

\* lines 134-151: the indices of the batch for which the loop calls
\* send_data_to_subscribers: it calls it for none.
create_published(data, fails) == << >>

\* lines 149-157: the response.
create_response(data, fails) ==
    IF FirstFail(Len(data), fails) <= Len(data)
    THEN [status |-> 400, kind |-> "error", detail |-> "Error inserting data", body |-> << >>]
    ELSE IF inserted_records(data, fails) = << >>
    THEN [status |-> 400, kind |-> "error", detail |-> "No data inserted", body |-> << >>]
    ELSE [status |-> 200, kind |-> "object", detail |-> "",
          body |-> <<inserted_records(data, fails)[1]>>]

\* The frames a fan-out of the batch items idx delivers to socket w.
RECURSIVE FramesFor(_, _, _, _)
FramesFor(w, subs, data, idx) ==
    IF idx = << >> THEN << >>
    ELSE LET v == insert_values(data[Head(idx)])
             rest == FramesFor(w, subs, data, Tail(idx))
         IN IF w \in Members(subs, v.user_id) THEN <<Frame(v)>> \o rest ELSE rest

NoCreate ==
    [called |-> FALSE, data |-> << >>, fails |-> {},
     resp |-> [status |-> 0, kind |-> "none", detail |-> "", body |-> << >>],
     before |-> << >>, after |-> << >>, stored |-> << >>,
     subs |-> NoSubscriptions, published |-> << >>,
     pushed |-> [w \in Sockets |-> << >>]]

\* lines 127-159.  The handler has no await: it runs to its return (or raise)
\* in one step of the event loop.  fails is the set of batch positions whose
\* insert the database would reject.  The primary keys of the stored rows are
\* consecutive values of the sequence (a rejected insert is taken to have
\* drawn none).
CreateProcessedAgentData(data, fails) ==
    /\ nSubmitted + Len(data) <= MaxRecords
    /\ LET ins == inserted_records(data, fails)
           rows == [i \in 1..Len(ins) |-> Row(nextId + i - 1, ins[i])]
           idx == create_published(data, fails)
           pushed == [w \in Sockets |-> FramesFor(w, subscriptions, data, idx)]
       IN /\ table' = table \o rows
          /\ nextId' = nextId + Len(ins)
          /\ received' = [w \in Sockets |-> received[w] \o pushed[w]]
          /\ lastCreate' = [called |-> TRUE, data |-> data, fails |-> fails,
                            resp |-> create_response(data, fails),
                            before |-> table, after |-> table \o rows,
                            stored |-> rows, subs |-> subscriptions,
                            published |-> idx, pushed |-> pushed]
          /\ written' = [id \in DOMAIN written \cup {r.id : r \in Range(rows)} |->
                            IF id \in DOMAIN written THEN written[id]
                            ELSE data[id - nextId + 1]]
    /\ nSubmitted' = nSubmitted + Len(data)
    /\ UNCHANGED <<wsVars, subscriptions, pub, nPublishes, regVars, crudVars, pipeVars>>

\* ------------------------------------------------------------- get, put, delete
\* The GET, PUT and DELETE handlers are plain functions: FastAPI runs each
\* request on a thread of its pool, with a database session of its own, so
\* the statements of two requests interleave.  Each statement is one step.
Workers == 1..MaxWorkers

\* The ids requests name: the keys the sequence has assigned and one it has not.
Ids == 1..nextId

\* The threads of the pool are interchangeable: a request runs on the first
\* idle one (0 when every thread is busy).
FreeWorker ==
    IF \E j \in Workers : workers[j].pc = "idle"
    THEN Min({j \in Workers : workers[j].pc = "idle"})
    ELSE 0

\* select(...).where(id == ...).first(): the row as a sequence of one, or the
\* empty sequence for None.
first(t, id) == SelectSeq(t, LAMBDA r : r.id = id)

\* The test of lines 174, 209 and 248 left out.
is_none_never(record) == FALSE

\* "if record is None": the handler goes on only with a row.
is_none(record) == record = << >>

\* The values of the UPDATE statement: the timestamp is passed as a datetime.
update_values(item) ==
    [road_state |-> item.road_state,
     user_id |-> item.agent_data.user_id,
     x |-> item.agent_data.accelerometer.x,
     y |-> item.agent_data.accelerometer.y,
     z |-> item.agent_data.accelerometer.z,
     latitude |-> item.agent_data.gps.latitude,
     longitude |-> item.agent_data.gps.longitude,
     timestamp |-> item.agent_data.timestamp]

\* The row an UPDATE with these values leaves under primary key id.
UpdatedRow(id, v) ==
    [id |-> id, road_state |-> v.road_state, user_id |-> v.user_id,
     x |-> v.x, y |-> v.y, z |-> v.z,
     latitude |-> v.latitude, longitude |-> v.longitude,
     timestamp |-> timestamp_from_datetime(v.timestamp)]

\* An UPDATE that sets the agent_data columns and leaves road_state as it is.
update_rows_merge(t, id, item) ==
    [i \in DOMAIN t |->
        IF t[i].id = id
        THEN [UpdatedRow(id, update_values(item)) EXCEPT !.road_state = t[i].road_state]
        ELSE t[i]]

\* lines 213-224: UPDATE ... WHERE id = ...: every column of the matching row.
update_rows(t, id, item) ==
    [i \in DOMAIN t |->
        IF t[i].id = id THEN UpdatedRow(id, update_values(item)) ELSE t[i]]

\* A DELETE that removes the oldest row of the table.
delete_rows_oldest(t, id) == IF t = << >> THEN t ELSE Tail(t)

\* lines 251-254: DELETE ... WHERE id = ...
delete_rows(t, id) == SelectSeq(t, LAMBDA r : r.id # id)

NoReq ==
    [op |-> "none", pc |-> "idle", id |-> 0, data |-> << >>, record |-> << >>,
     gone |-> FALSE, before |-> << >>, after |-> << >>]

NoLastReq ==
    [op |-> "none", id |-> 0, data |-> << >>, record |-> << >>, gone |-> FALSE,
     before |-> << >>, after |-> << >>, final |-> << >>,
     resp |-> [status |-> 0, body |-> << >>]]

\* The HTTPException of lines 175, 210 and 249.
NotFound == [status |-> 404, body |-> << >>]

\* The answer to a request that did not get as far as a write.
Answered(op, id, data, record, resp) ==
    [op |-> op, id |-> id, data |-> data, record |-> record,
     gone |-> id \in deleted, before |-> table, after |-> table, final |-> table,
     resp |-> resp]

\* lines 166-177: one SELECT, then 404 or the row.
ReadProcessedAgentData(id) ==
    /\ nRequests + nSubmitted < MaxStoreOps
    /\ LET result == first(table, id)
       IN lastReq' = Answered("read", id, << >>, result,
                              IF is_none(result) THEN NotFound
                              ELSE [status |-> 200, body |-> result])
    /\ nRequests' = nRequests + 1
    /\ UNCHANGED <<wsVars, subscriptions, received, pub, nPublishes, storeVars,
                   regVars, pipeVars, workers, written, deleted>>

\* lines 182-194: every row.
ListProcessedAgentData ==
    /\ nRequests + nSubmitted < MaxStoreOps
    /\ lastReq' = Answered("list", 0, << >>, table, [status |-> 200, body |-> table])
    /\ nRequests' = nRequests + 1
    /\ UNCHANGED <<wsVars, subscriptions, received, pub, nPublishes, storeVars,
                   regVars, pipeVars, workers, written, deleted>>

\* lines 205-210: the SELECT of the PUT handler and its 404.
UpdateSelect(k, id, item) ==
    /\ nRequests + nSubmitted < MaxStoreOps
    /\ k = FreeWorker
    /\ LET record == first(table, id)
       IN IF is_none(record)
          THEN /\ lastReq' = Answered("update", id, <<item>>, record, NotFound)
               /\ UNCHANGED workers
          ELSE /\ workers' = [workers EXCEPT ![k] =
                                 [NoReq EXCEPT !.op = "update", !.pc = "execute", !.id = id,
                                               !.data = <<item>>, !.record = record,
                                               !.gone = id \in deleted]]
               /\ UNCHANGED lastReq
    /\ nRequests' = nRequests + 1
    /\ UNCHANGED <<wsVars, subscriptions, received, pub, nPublishes, storeVars,
                   regVars, pipeVars, written, deleted>>

\* lines 213-225: the UPDATE and its commit.
UpdateExecute(k) ==
    /\ workers[k].op = "update"
    /\ workers[k].pc = "execute"
    /\ LET after == update_rows(table, workers[k].id, workers[k].data[1])
       IN /\ table' = after
          /\ workers' = [workers EXCEPT ![k].pc = "reselect", ![k].before = table,
                                        ![k].after = after]
    /\ written' = IF first(table, workers[k].id) = << >> THEN written
                  ELSE [written EXCEPT ![workers[k].id] = workers[k].data[1]]
    /\ UNCHANGED <<wsVars, subscriptions, received, pub, nPublishes, nextId, lastCreate,
                   nSubmitted, regVars, pipeVars, lastReq, deleted, nRequests>>

\* lines 227-231: the second SELECT and the response.  A None fails the
\* validation against the response model: the request is answered 500.
UpdateReselect(k) ==
    /\ workers[k].op = "update"
    /\ workers[k].pc = "reselect"
    /\ LET updated_record == first(table, workers[k].id)
           r == workers[k]
       IN lastReq' = [op |-> "update", id |-> r.id, data |-> r.data, record |-> r.record,
                      gone |-> r.gone, before |-> r.before, after |-> r.after,
                      final |-> table,
                      resp |-> IF updated_record = << >>
                               THEN [status |-> 500, body |-> << >>]
                               ELSE [status |-> 200, body |-> updated_record]]
    /\ workers' = [workers EXCEPT ![k] = NoReq]
    /\ UNCHANGED <<wsVars, subscriptions, received, pub, nPublishes, storeVars,
                   regVars, pipeVars, written, deleted, nRequests>>

\* lines 244-249: the SELECT of the DELETE handler and its 404.
DeleteSelect(k, id) ==
    /\ nRequests + nSubmitted < MaxStoreOps
    /\ k = FreeWorker
    /\ LET record == first(table, id)
       IN IF is_none(record)
          THEN /\ lastReq' = Answered("delete", id, << >>, record, NotFound)
               /\ UNCHANGED workers
          ELSE /\ workers' = [workers EXCEPT ![k] =
                                 [NoReq EXCEPT !.op = "delete", !.pc = "execute", !.id = id,
                                               !.record = record, !.gone = id \in deleted]]
               /\ UNCHANGED lastReq
    /\ nRequests' = nRequests + 1
    /\ UNCHANGED <<wsVars, subscriptions, received, pub, nPublishes, storeVars,
                   regVars, pipeVars, written, deleted>>

\* lines 251-255: the DELETE, its commit and the response: the row read by
\* the SELECT.
DeleteExecute(k) ==
    /\ workers[k].op = "delete"
    /\ workers[k].pc = "execute"
    /\ LET after == delete_rows(table, workers[k].id)
           r == workers[k]
       IN /\ table' = after
          /\ lastReq' = [op |-> "delete", id |-> r.id, data |-> r.data, record |-> r.record,
                         gone |-> r.gone, before |-> table, after |-> after,
                         final |-> after,
                         resp |-> [status |-> 200, body |-> r.record]]
    /\ deleted' = deleted \cup {workers[k].id}
    /\ workers' = [workers EXCEPT ![k] = NoReq]
    /\ UNCHANGED <<wsVars, subscriptions, received, pub, nPublishes, nextId, lastCreate,
                   nSubmitted, regVars, pipeVars, written, nRequests>>

\* ------------------------------------------------------------- edge classifier
\* src/edge/app/usecases/data_processing.py.  The accelerometer readings given
\* to the classifier.
AccelReadings == (0 - MaxAccel)..MaxAccel

\* The AgentData whose vertical reading is y.
AgentDataWith(y) == Item("", 7, y, [wall |-> 1, tz |-> "naive"]).agent_data

\* The classifier with both thresholds taken as part of the band they bound.
process_agent_data_inclusive(agent_data) ==
    LET process_data == [road_state |-> "unknown", agent_data |-> agent_data]
    IN IF agent_data.accelerometer.y <= -100
       THEN [process_data EXCEPT !.road_state = "pit"]
       ELSE IF agent_data.accelerometer.y >= 100
            THEN [process_data EXCEPT !.road_state = "hill"]
            ELSE [process_data EXCEPT !.road_state = "flat"]

\* lines 16-25: the record is built with road_state "unknown", then one of
\* the three branches assigns the class.
process_agent_data(agent_data) ==
    LET process_data == [road_state |-> "unknown", agent_data |-> agent_data]
    IN IF agent_data.accelerometer.y < -100
       THEN [process_data EXCEPT !.road_state = "pit"]
       ELSE IF agent_data.accelerometer.y > 100
            THEN [process_data EXCEPT !.road_state = "hill"]
            ELSE [process_data EXCEPT !.road_state = "flat"]

NoProcessed ==
    [called |-> FALSE, agent_data |-> AgentDataWith(0), result |-> Item("", 7, 0, [wall |-> 1, tz |-> "naive"])]

\* The call of the classifier on the agent data at hand.
ProcessAgentData ==
    /\ ~processed.called
    /\ processed' = [processed EXCEPT !.called = TRUE,
                                      !.result = process_agent_data(processed.agent_data)]
    /\ UNCHANGED <<wsVars, subscriptions, received, pub, nPublishes, storeVars,
                   regVars, crudVars, written, config, aggregated>>

\* ------------------------------------------------------------- agent data source
\* src/agent/src/file_datasource.py.  The data rows of the three sensor files,
\* already split into fields (the values are whole numbers, which int() and
\* float() leave as they are).
AccelerometerRows == {<<1, 0, 3>>, <<2, 150, 4>>}
GpsRows == {<<30, 50>>, <<31, 51>>}
ParkingRows == {<<5, 30, 50>>, <<0, 31, 51>>}

\* The readings of datetime.now().
ClockReadings == {1, 2}

\* The constructors of the domain classes, fields named as the arguments
\* they are called with.
Accelerometer(x, y, z) == [x |-> x, y |-> y, z |-> z]
Gps(longitude, latitude) == [longitude |-> longitude, latitude |-> latitude]
Parking(empty_count, gps) == [empty_count |-> empty_count, gps |-> gps]
AggregatedData(accelerometer, gps, parking, timestamp, user_id) ==
    [accelerometer |-> accelerometer, gps |-> gps, parking |-> parking,
     timestamp |-> timestamp, user_id |-> user_id]

\* lines 73-102: one object for each data row of the file.
read_accelerometer_data(rows) ==
    [i \in DOMAIN rows |-> Accelerometer(rows[i][1], rows[i][2], rows[i][3])]
read_gps_data(rows) ==
    [i \in DOMAIN rows |-> Gps(rows[i][1], rows[i][2])]
read_parking_data(rows) ==
    [i \in DOMAIN rows |-> Parking(rows[i][1], Gps(rows[i][2], rows[i][3]))]

\* A zip that takes the second list from its end.
zip_second_reversed(a, g, p) ==
    [i \in 1..Min({Len(a), Len(g), Len(p)}) |-> <<a[i], g[Len(g) + 1 - i], p[i]>>]

\* line 34: zip stops at the end of the shortest list.
zip(a, g, p) ==
    [i \in 1..Min({Len(a), Len(g), Len(p)}) |-> <<a[i], g[i], p[i]>>]

\* lines 29-45: read the three files, pair the samples by position, stamp
\* each with the clock reading of its turn and the configured user.
read(accelerometer_rows, gps_rows, parking_rows, now) ==
    LET triples == zip(read_accelerometer_data(accelerometer_rows),
                       read_gps_data(gps_rows),
                       read_parking_data(parking_rows))
    IN [i \in DOMAIN triples |->
           AggregatedData(triples[i][1], triples[i][2], triples[i][3], now[i],
                          config.USER_ID)]

NoAggregated ==
    [called |-> FALSE, accelerometer_rows |-> << >>, gps_rows |-> << >>,
     parking_rows |-> << >>, result |-> << >>]

\* The clock readings of n successive calls of datetime.now().
Readings(n) == {now \in [1..n -> ClockReadings] : \A i \in 1..n : \A j \in i..n : now[i] <= now[j]}

\* The call of FileDatasource.read on the files at hand.
FileDatasourceRead(now) ==
    /\ ~aggregated.called
    /\ aggregated' = [aggregated EXCEPT
                         !.called = TRUE,
                         !.result = read(aggregated.accelerometer_rows, aggregated.gps_rows,
                                         aggregated.parking_rows, now)]
    /\ UNCHANGED <<wsVars, subscriptions, received, pub, nPublishes, storeVars,
                   regVars, crudVars, written, config, processed>>

\* ------------------------------------------------------------- specifications
Init ==
    /\ pc = [w \in Sockets |-> "idle"]
    /\ conn = [w \in Sockets |-> "none"]
    /\ wsUser = [w \in Sockets |-> 7]
    /\ subscriptions = NoSubscriptions
    /\ received = [w \in Sockets |-> << >>]
    /\ pub = NoPub
    /\ nPublishes = 0
    /\ table = << >>
    /\ nextId = 1
    /\ lastCreate = NoCreate
    /\ nSubmitted = 0
    /\ lastOp = [op |-> "none", user |-> 7, ws |-> 1, before |-> NoSubscriptions, raised |-> "none"]
    /\ nRegOps = 0
    /\ workers = [k \in Workers |-> NoReq]
    /\ lastReq = NoLastReq
    /\ written = [id \in {} |-> << >>]
    /\ deleted = {}
    /\ nRequests = 0
    /\ config = [USER_ID |-> 7]
    /\ processed = NoProcessed
    /\ aggregated = NoAggregated

Next ==
    \/ \E w \in 1..MaxListeners, u \in Users : WsConnect(w, u)
    \/ \E w \in 1..MaxListeners : WsAcceptError(w)
    \/ \E w \in Sockets : WsReceiveText(w)
    \/ \E w \in Sockets : ClientClose(w)
    \/ \E w \in Sockets : WsDisconnect(w)
    \/ \E w \in Sockets : WsReceiveError(w)
    \/ \E data \in Batches(MaxRecords - nSubmitted) :
          \E fails \in SUBSET (1..Len(data)) :
             CreateProcessedAgentData(data, fails)

Spec == Init /\ [][Next]_vars

\* The endpoint handlers and a caller of send_data_to_subscribers.
NextFanout ==
    \/ \E w \in Sockets, u \in Users : WsConnect(w, u)
    \/ \E w \in Sockets : WsAcceptError(w)
    \/ \E w \in Sockets : ClientStall(w)
    \/ \E w \in Sockets : ClientClose(w)
    \/ \E w \in Sockets : WsDisconnect(w)
    \/ \E w \in Sockets : WsReceiveError(w)
    \/ \E u \in Users, d \in PubData : PublishCall(u, d)
    \/ PubSendResume

SpecFanout == Init /\ [][NextFanout]_vars

\* The registry operations on listener handles whose connections are open.
InitReg ==
    /\ pc = [w \in Sockets |-> "idle"]
    /\ conn = [w \in Sockets |-> "open"]
    /\ wsUser = [w \in Sockets |-> 7]
    /\ subscriptions = NoSubscriptions
    /\ received = [w \in Sockets |-> << >>]
    /\ pub = NoPub
    /\ nPublishes = 0
    /\ table = << >>
    /\ nextId = 1
    /\ lastCreate = NoCreate
    /\ nSubmitted = 0
    /\ lastOp = [op |-> "none", user |-> 7, ws |-> 1, before |-> NoSubscriptions, raised |-> "none"]
    /\ nRegOps = 0
    /\ workers = [k \in Workers |-> NoReq]
    /\ lastReq = NoLastReq
    /\ written = [id \in {} |-> << >>]
    /\ deleted = {}
    /\ nRequests = 0
    /\ config = [USER_ID |-> 7]
    /\ processed = NoProcessed
    /\ aggregated = NoAggregated

NextReg ==
    \/ \E u \in Users, w \in Sockets : RegSubscribe(u, w)
    \/ \E u \in Users, w \in Sockets : RegUnsubscribe(u, w)
    \/ \E u \in Users, d \in PubData : PublishCall(u, d)
    \/ PubSendResume

SpecReg == InitReg /\ [][NextReg]_vars

\* The REST endpoints of the table alone.
NextStore ==
    \/ \E data \in Batches(MaxStoreOps - nSubmitted - nRequests) :
          \E fails \in SUBSET (1..Len(data)) :
             CreateProcessedAgentData(data, fails)
    \/ \E id \in Ids : ReadProcessedAgentData(id)
    \/ ListProcessedAgentData
    \/ \E k \in Workers, id \in Ids, item \in Items : UpdateSelect(k, id, item)
    \/ \E k \in Workers : UpdateExecute(k)
    \/ \E k \in Workers : UpdateReselect(k)
    \/ \E k \in Workers, id \in Ids : DeleteSelect(k, id)
    \/ \E k \in Workers : DeleteExecute(k)

SpecStore == Init /\ [][NextStore]_vars

\* The store service before any connection or request.
ServiceIdle ==
    /\ pc = [w \in Sockets |-> "idle"]
    /\ conn = [w \in Sockets |-> "none"]
    /\ wsUser = [w \in Sockets |-> 7]
    /\ subscriptions = NoSubscriptions
    /\ received = [w \in Sockets |-> << >>]
    /\ pub = NoPub
    /\ nPublishes = 0
    /\ table = << >>
    /\ nextId = 1
    /\ lastCreate = NoCreate
    /\ nSubmitted = 0
    /\ lastOp = [op |-> "none", user |-> 7, ws |-> 1, before |-> NoSubscriptions, raised |-> "none"]
    /\ nRegOps = 0
    /\ workers = [k \in Workers |-> NoReq]
    /\ lastReq = NoLastReq
    /\ written = [id \in {} |-> << >>]
    /\ deleted = {}
    /\ nRequests = 0

\* The edge classifier, given agent data with a reading on either side of
\* its thresholds.
InitEdge ==
    /\ ServiceIdle
    /\ config = [USER_ID |-> 7]
    /\ processed \in {[NoProcessed EXCEPT !.agent_data = AgentDataWith(y)] : y \in AccelReadings}
    /\ aggregated = NoAggregated

NextEdge == ProcessAgentData

SpecEdge == InitEdge /\ [][NextEdge]_vars

\* The agent's data source, with either configured user, given files of at
\* most MaxCsvRows data rows each.
InitAgent ==
    /\ ServiceIdle
    /\ config \in {[USER_ID |-> u] : u \in Users}
    /\ processed = NoProcessed
    /\ aggregated \in {[NoAggregated EXCEPT !.accelerometer_rows = a, !.gps_rows = g,
                                            !.parking_rows = p] :
                           a \in SeqsUpTo(AccelerometerRows, MaxCsvRows),
                           g \in SeqsUpTo(GpsRows, MaxCsvRows),
                           p \in SeqsUpTo(ParkingRows, MaxCsvRows)}

NextAgent ==
    \E now \in Readings(Min({Len(aggregated.accelerometer_rows), Len(aggregated.gps_rows),
                              Len(aggregated.parking_rows)})) :
       FileDatasourceRead(now)

SpecAgent == InitAgent /\ [][NextAgent]_vars

\* ------------------------------------------------------------- claims
Count(s, x) == Cardinality({i \in DOMAIN s : s[i] = x})

\* The rows a create stored for user u, in submission order.
StoredFor(u) == SelectSeq(lastCreate.stored, LAMBDA r : r.user_id = u)

LastFirstFail == FirstFail(Len(lastCreate.data), lastCreate.fails)

\* C1 (as claimed): after a batch create, every listener that was subscribed
\* to user u when the request arrived and is still connected has been pushed
\* exactly one frame per stored record of u, in submission order, each
\* matching the stored row.
C1_CreatePushesStoredRows ==
    lastCreate.called =>
        \A u \in Users : \A w \in Sockets :
            (/\ w \in Members(lastCreate.subs, u)
             /\ w \in Members(subscriptions, u)
             /\ pc[w] = "receiving" /\ conn[w] = "open")
            => /\ Len(lastCreate.pushed[w]) = Len(StoredFor(u))
               /\ \A i \in DOMAIN lastCreate.pushed[w] :
                     lastCreate.pushed[w][i] = Frame(Columns(StoredFor(u)[i]))

\* C2: a batch create publishes no record whose insert failed: every batch
\* position it publishes is the position of a committed row, and every frame
\* it pushed to a listener is the frame of a row it stored.
C2_NoPublishOfFailedInsert ==
    lastCreate.called =>
        /\ \A j \in Range(lastCreate.published) :
              j \in 1..Len(lastCreate.stored) /\ j \notin lastCreate.fails
        /\ \A w \in Sockets : \A i \in DOMAIN lastCreate.pushed[w] :
              \E r \in Range(lastCreate.stored) :
                 lastCreate.pushed[w][i] = Frame(Columns(r))

\* C2 witness: a create whose insert failed for a record of a user with a
\* connected listener has returned, and that listener was pushed nothing.
C2_Witness ==
    /\ lastCreate.called
    /\ LastFirstFail <= Len(lastCreate.data)
    /\ \E w \in Sockets :
          /\ w \in Members(lastCreate.subs,
                           lastCreate.data[LastFirstFail].agent_data.user_id)
          /\ conn[w] = "open"
          /\ received[w] = << >>

\* The number of per-record outcomes a response carries: the rows of its
\* body, or the one error it reports.
OutcomeCount(resp) == IF resp.kind = "error" THEN 1 ELSE Len(resp.body)

\* C3 (as claimed): the response of a batch create of n >= 1 records carries
\* n per-record outcomes, the i-th being the i-th stored row or an error; it
\* is not the first record's result alone.
C3_PerRecordOutcomes ==
    (lastCreate.called /\ Len(lastCreate.data) >= 1) =>
        /\ OutcomeCount(lastCreate.resp) = Len(lastCreate.data)
        /\ lastCreate.resp.kind # "error" =>
              \A i \in DOMAIN lastCreate.resp.body :
                 /\ i \in DOMAIN lastCreate.stored
                 /\ lastCreate.resp.body[i] = Columns(lastCreate.stored[i])

\* C4: when the insert of the k-th record fails, the table after the call is
\* the table before it followed by one complete row for each of the records
\* 1..k-1, in order; nothing of record k or of a later record is stored.
C4_AtomicPerRecord ==
    (lastCreate.called /\ LastFirstFail <= Len(lastCreate.data)) =>
        LET k == LastFirstFail
            n0 == Len(lastCreate.before)
        IN /\ Len(lastCreate.after) = n0 + k - 1
           /\ \A i \in 1..n0 : lastCreate.after[i] = lastCreate.before[i]
           /\ \A i \in 1..(k - 1) :
                 /\ n0 + i \in DOMAIN lastCreate.after
                 /\ lastCreate.after[n0 + i] =
                       Row(lastCreate.after[n0 + i].id, insert_values(lastCreate.data[i]))

\* C4 witness: a batch of three whose second insert failed: the first record
\* is committed, the second and the third are absent.
C4_Witness ==
    /\ lastCreate.called
    /\ Len(lastCreate.data) >= 3
    /\ LastFirstFail = 2
    /\ Len(lastCreate.after) = Len(lastCreate.before) + 1

C8_OnlyLiveListeners ==
    \A w \in Sockets :
        pc[w] \in {"done", "failed"} =>
            \A u \in DOMAIN subscriptions : w \notin subscriptions[u]

\* C6 (as claimed): a publish during which no send failed returns normally and
\* has delivered to every listener that was subscribed when it began and is
\* still subscribed and connected, whatever other listeners did meanwhile.
C6_PublishUnderInterleaving ==
    (PubFinished /\ pub.err # "SendError") =>
        /\ pub.st = "returned"
        /\ \A w \in pub.snap :
              (w \in Members(subscriptions, pub.user) /\ conn[w] = "open")
              => Count(pub.sent, w) >= 1

\* C7 (as claimed): when the send to one listener fails (and the listener set
\* did not change during the publish), the publish still returns normally and
\* every other listener of the user has been sent the record.
C7_SendFailureIsolated ==
    (PubFinished /\ ~pub.raced /\ pub.err # "RuntimeError") =>
        /\ pub.st = "returned"
        /\ \A w \in pub.snap :
              (w \in Members(subscriptions, pub.user) /\ conn[w] = "open")
              => Count(pub.sent, w) >= 1

\* C9: subscribe keeps every listener already in the user's set, adds the
\* given one, creates the set when the user had none and touches no other
\* user; subscribing a listener that is already a member changes nothing; and
\* a publish that then runs undisturbed sends to each member exactly once.
C9_SubscribeSetSemantics ==
    /\ lastOp.op = "subscribe" =>
          /\ lastOp.user \in DOMAIN subscriptions
          /\ lastOp.ws \in subscriptions[lastOp.user]
          /\ Members(lastOp.before, lastOp.user) \subseteq subscriptions[lastOp.user]
          /\ \A u \in DOMAIN lastOp.before :
                u # lastOp.user => subscriptions[u] = lastOp.before[u]
          /\ lastOp.ws \in Members(lastOp.before, lastOp.user)
                => subscriptions = lastOp.before
    /\ (pub.st = "returned" /\ ~pub.raced) =>
          /\ \A w \in pub.snap : Count(pub.sent, w) = 1
          /\ \A w \in Sockets \ pub.snap : Count(pub.sent, w) = 0

\* C9 witness: a listener was subscribed a second time next to another
\* listener of the same user, and the publish that followed sent it the
\* record once.
C9_Witness ==
    /\ lastOp.op = "subscribe"
    /\ lastOp.ws \in Members(lastOp.before, lastOp.user)
    /\ Cardinality(Members(lastOp.before, lastOp.user)) >= 2
    /\ pub.st = "returned"
    /\ pub.user = lastOp.user
    /\ pub.epoch = nRegOps
    /\ Count(pub.sent, lastOp.ws) = 1
    /\ Len(received[lastOp.ws]) = 1

\* C10 (as claimed): unsubscribe of a listener that is not a member of the
\* user's set raises nothing and leaves the registry unchanged.
C10_UnsubscribeNonMemberNoop ==
    (lastOp.op = "unsubscribe" /\ lastOp.ws \notin Members(lastOp.before, lastOp.user)) =>
        /\ lastOp.raised = "none"
        /\ subscriptions = lastOp.before

\* C11 (as claimed): one publish sends its record to a listener at most once,
\* so a listener has received at most one frame for each publish made, and a
\* listener whose handler has not started has received nothing.
C11_AtMostOncePerPublish ==
    \A w \in Sockets :
        /\ Count(pub.sent, w) <= 1
        /\ Len(received[w]) <= nPublishes
        /\ pc[w] = "idle" => received[w] = << >>

\* C12 (as claimed): a publish is never held up by a listener whose send does
\* not complete: while it has not returned, its next step can be taken.
C12_PublishNeverBlocked ==
    pub.st = "sending" => ENABLED PubSendResume

\* C19: a publish for user u sends only to sockets whose handler registered
\* them under u, a socket holds frames only if a publish ran, and no step of
\* send_data_to_subscribers changes the listener set of any user.
C19_PerUserIsolation ==
    /\ [](/\ \A i \in DOMAIN pub.sent :
               wsUser[pub.sent[i]] = pub.user /\ pc[pub.sent[i]] # "idle"
          /\ pub.st = "sending" => wsUser[pub.cur] = pub.user /\ pc[pub.cur] # "idle"
          /\ \A w \in Sockets :
                (pub.st # "none" /\ wsUser[w] # pub.user /\ nPublishes = 1)
                => received[w] = << >>)
    /\ [][(nPublishes' # nPublishes \/ received' # received)
            => subscriptions' = subscriptions]_vars

\* C19 witness: a publish for one user has returned after sending to that
\* user's listener while a connected listener of the other user got nothing.
C19_Witness ==
    /\ pub.st = "returned"
    /\ pub.sent # << >>
    /\ \E v \in Sockets :
          /\ pc[v] = "receiving" /\ conn[v] = "open"
          /\ wsUser[v] # pub.user
          /\ v \in Members(subscriptions, wsUser[v])
          /\ received[v] = << >>

\* The instant a timestamp denotes, in hours of UTC (a naive one read as UTC).
instant(t) == t.wall - TzHours(t.tz)

\* The eight data fields of a stored row are those of the request body item,
\* timestamps compared as instants.
SameFields(row, item) ==
    /\ row.road_state = item.road_state
    /\ row.user_id = item.agent_data.user_id
    /\ row.x = item.agent_data.accelerometer.x
    /\ row.y = item.agent_data.accelerometer.y
    /\ row.z = item.agent_data.accelerometer.z
    /\ row.latitude = item.agent_data.gps.latitude
    /\ row.longitude = item.agent_data.gps.longitude
    /\ instant(row.timestamp) = instant(item.agent_data.timestamp)

\* C13: a get, update or delete that names an id with no row is answered 404
\* and is over with that: no handler goes on to its write without a row, and
\* the step that answers 404 leaves the table as it is.
C13_MissingIdNotFound ==
    /\ []((lastReq.op \in {"read", "update", "delete"} /\ lastReq.record = << >>)
             => lastReq.resp = NotFound)
    /\ [](\A k \in Workers : workers[k].pc # "idle" => workers[k].record # << >>)
    /\ [][(lastReq' # lastReq /\ lastReq'.resp.status = 404)
            => (table' = table /\ nextId' = nextId /\ workers' = workers)]_vars

\* C13 witness: an update that named a missing id was answered 404 while the
\* table holds rows.
C13_Witness ==
    /\ lastReq.op = "update"
    /\ lastReq.record = << >>
    /\ lastReq.resp = NotFound
    /\ table # << >>
    /\ table = lastReq.before

\* C14 (as claimed): a successful create answers with the stored row, primary
\* key included, and a get of a row answers with a row whose eight data fields
\* are those of the request body it was written from.
C14_CreateGetRoundTrip ==
    /\ (lastCreate.called /\ lastCreate.resp.status = 200) =>
          lastCreate.resp.body = <<lastCreate.stored[1]>>
    /\ (lastReq.op = "read" /\ lastReq.resp.status = 200) =>
          SameFields(lastReq.resp.body[1], written[lastReq.id])

\* C15: an update that found its row writes every data field of that row from
\* the request body and leaves the id, the other rows and the number of rows
\* as they were; the row it returns is the row stored under the id when it
\* returns, which is the row it wrote unless another request wrote since.
C15_UpdateFullReplace ==
    (lastReq.op = "update" /\ lastReq.record # << >>) =>
        LET id == lastReq.id
            item == lastReq.data[1]
        IN /\ Len(lastReq.after) = Len(lastReq.before)
           /\ \A i \in DOMAIN lastReq.before :
                 /\ lastReq.after[i].id = lastReq.before[i].id
                 /\ IF lastReq.before[i].id = id
                    THEN /\ SameFields(lastReq.after[i], item)
                         /\ lastReq.after[i].timestamp.tz = "naive"
                    ELSE lastReq.after[i] = lastReq.before[i]
           /\ lastReq.resp.body = first(lastReq.final, id)
           /\ lastReq.resp.status = 200 => lastReq.resp.body[1].id = id
           /\ (lastReq.final = lastReq.after /\ first(lastReq.before, id) # << >>) =>
                 /\ lastReq.resp.status = 200
                 /\ SameFields(lastReq.resp.body[1], item)

\* C15 witness: an update replaced the road_state and the user of one row of
\* a table of two and returned the row it wrote.
C15_Witness ==
    /\ lastReq.op = "update"
    /\ lastReq.resp.status = 200
    /\ Len(lastReq.before) = 2
    /\ lastReq.final = lastReq.after
    /\ lastReq.record[1].road_state # lastReq.data[1].road_state
    /\ lastReq.record[1].user_id # lastReq.data[1].agent_data.user_id
    /\ lastReq.resp.body[1].road_state = lastReq.data[1].road_state

\* C16 (as claimed): no row of the table has road_state "unknown".
C16_NoUnknownPersisted ==
    \A i \in DOMAIN table : table[i].road_state # "unknown"

C17_ClassifierTotal ==
    processed.called =>
        LET y == processed.agent_data.accelerometer.y
            rs == processed.result.road_state
        IN /\ rs \in {"pit", "hill", "flat"}
           /\ rs = "pit" <=> y < -100
           /\ rs = "hill" <=> y > 100
           /\ rs = "flat" <=> (y >= -100 /\ y <= 100)
           /\ processed.result.agent_data = processed.agent_data

\* C17 witness: the classifier answered "flat" for a reading on a threshold.
C17_Witness ==
    /\ processed.called
    /\ processed.agent_data.accelerometer.y \in {-100, 100}
    /\ processed.result.road_state = "flat"

\* C18: read returns as many records as the shortest of the three files has
\* data rows; the i-th record holds the i-th sample of each file and the
\* configured user; the rows beyond the shortest file are left out.
C18_AggregationAligned ==
    aggregated.called =>
        LET a == aggregated.accelerometer_rows
            g == aggregated.gps_rows
            p == aggregated.parking_rows
            n == Min({Len(a), Len(g), Len(p)})
        IN /\ Len(aggregated.result) = n
           /\ \A i \in 1..n :
                 /\ aggregated.result[i].accelerometer = [x |-> a[i][1], y |-> a[i][2], z |-> a[i][3]]
                 /\ aggregated.result[i].gps = [longitude |-> g[i][1], latitude |-> g[i][2]]
                 /\ aggregated.result[i].parking =
                       [empty_count |-> p[i][1],
                        gps |-> [longitude |-> p[i][2], latitude |-> p[i][3]]]
                 /\ aggregated.result[i].user_id = config.USER_ID

\* C18 witness: files of two, one and two data rows gave one record.
C18_Witness ==
    /\ aggregated.called
    /\ Len(aggregated.accelerometer_rows) = 2
    /\ Len(aggregated.gps_rows) = 1
    /\ Len(aggregated.parking_rows) = 2
    /\ Len(aggregated.result) = 1

====
